---- MODULE Spec2Model ----
(***************************************************************************)
(* tinymr: in-memory MapReduce.  Two engines live in the repository:       *)
(*   "base"   : tinymr/_base.py, _MRInternal.__call__ (P partition keys,   *)
(*              S sort keys, job pools, init hooks, closed flag)           *)
(*   "simple" : tinymr.py, MapReduce.__call__ (one partition key, sort     *)
(*              element optional, sort flags, mapper_map / reducer_map)    *)
(* A task is constructed with a configuration (cfg) and is then invoked    *)
(* any number of times; each invocation is a run of the pipeline.          *)
(***************************************************************************)
EXTENDS Integers, Sequences, FiniteSets, TLC

\* ------------------------------------------------------------------ bounds
MaxItems == 2
MaxSortKeys == 2
NumKeys == 2
MaxCloses == 2

\* ------------------------------------------------- Python values and tuples
\* A Python object: a bare scalar n, or a flat tuple of scalars.
B(n) == [bare |-> TRUE, f |-> <<n>>]
T(s) == [bare |-> FALSE, f |-> s]

\* tuple(...) of the bare fields s[1..Len(s)]: a record as the mapper emits it
Rec(s) == [i \in 1..Len(s) |-> B(s[i])]

Min(a, b) == IF a < b THEN a ELSE b

\* rec[a:b] on a tuple of bare fields (0-based, end exclusive, clipped)
Slice(rec, a, b) ==
    T([i \in 1..(IF Min(b, Len(rec)) > a THEN Min(b, Len(rec)) - a ELSE 0)
          |-> rec[a + i].f[1]])

\* Python's ordering of scalars and of tuples (element-wise, left to right)
LexLess(a, b) ==
    \/ \E i \in 1..Min(Len(a), Len(b)) :
          /\ \A j \in 1..(i - 1) : a[j] = b[j]
          /\ a[i] < b[i]
    \/ /\ Len(a) < Len(b)
       /\ \A j \in 1..Len(a) : a[j] = b[j]

\* a comparison that ignores reverse
BeforeAscending(a, b, reverse) == LexLess(a, b)

Before(a, b, reverse) == IF reverse THEN LexLess(b, a) ELSE LexLess(a, b)

\* a sort that leaves the elements where they are
SortPermUnsorted(keys, reverse) == [i \in 1..Len(keys) |-> i]

\* list.sort / sorted: stable, also under reverse=True.  keys[i] is the sort
\* key of element i; the result is the order of the indices after sorting.
SortPerm(keys, reverse) ==
    LET F[n \in 0..Len(keys)] ==
            IF n = 0 THEN <<>>
            ELSE LET p == F[n - 1]
                     cnt == Cardinality({j \in 1..Len(p) :
                                ~Before(keys[n], keys[p[j]], reverse)})
                 IN SubSeq(p, 1, cnt) \o <<n>> \o SubSeq(p, cnt + 1, Len(p))
    IN F[Len(keys)]

\* itertools.chain.from_iterable over a sequence of tuples of records
Flatten(ss) ==
    LET F[n \in 0..Len(ss)] == IF n = 0 THEN <<>> ELSE F[n - 1] \o ss[n]
    IN F[Len(ss)]

SumVals(vs) ==
    LET F[n \in 0..Len(vs)] == IF n = 0 THEN 0 ELSE F[n - 1] + vs[n].f[1]
    IN F[Len(vs)]

\* defaultdict(list/deque): d[key].append(x).  The dict keeps insertion order.
DictAppend(d, key, x) ==
    IF \E i \in 1..Len(d) : d[i].key = key
    THEN [i \in 1..Len(d) |->
             IF d[i].key = key THEN [d[i] EXCEPT !.vals = Append(@, x)]
             ELSE d[i]]
    ELSE Append(d, [key |-> key, vals |-> <<x>>])

DictKeys(d) == {d[i].key : i \in 1..Len(d)}

\* ---------------------------------------------------- task configuration
PoolSettings ==
    { [jobs |-> 1, threaded |-> FALSE],
      [jobs |-> 2, threaded |-> TRUE],
      [jobs |-> 2, threaded |-> FALSE] }

\* the reducers tried on a task; "pair" returns instead of yielding, and is
\* tried where its result passes as records at all (keys that are 2-tuples)
BaseReducers(c) ==
    {"each", "none", "flat", "srt", "mixed"}
        \cup (IF c.P = 2 /\ c.S = 0 THEN {"pair"} ELSE {})
SimpleReducers == {"ret", "each", "none", "srt", "long", "mixed"}

\* _MRInternal subclass: n_partition_keys, n_sort_keys, map_jobs/threaded_map,
\* reduce_jobs/threaded_reduce, reducer()
BaseConfigs ==
    [impl : {"base"}, P : {1, 2}, S : 0..MaxSortKeys,
     mapPool : PoolSettings, mapVal : {FALSE}, mapRev : {FALSE},
     map : {FALSE}]

\* tinymr.MapReduce subclass: S is the number of sort elements the mapper
\* emits (0 or 1); a pool setting with jobs > 1 stands for a mapper_map /
\* reducer_map argument, jobs = 1 for None
SimpleConfigs ==
    [impl : {"simple"}, P : {1}, S : {0, 1},
     mapPool : {p \in PoolSettings : p.threaded = (p.jobs > 1)},
     mapVal : BOOLEAN, mapRev : BOOLEAN, map : {FALSE}]

\* the same tasks invoked with the map argument: mr(sequence, map=f)
MapArgConfigs == {[c EXCEPT !.map = TRUE] : c \in SimpleConfigs}

Configs == BaseConfigs \cup SimpleConfigs

\* What the reduce phase reads of the task when it starts: the reduce pool
\* (_reduce_job_pool / reducer_map), the reducer, and the reduce-phase sort
\* properties (sort_reduce_with_value, sort_reduce_reverse)
ReduceConfigs(c) ==
    IF c.impl = "base"
    THEN [pool : PoolSettings, reducer : BaseReducers(c),
          val : {FALSE}, rev : {FALSE}]
    ELSE [pool : {p \in PoolSettings : p.threaded = (p.jobs > 1)},
          reducer : SimpleReducers, val : BOOLEAN, rev : BOOLEAN]

NoReduceConfig ==
    [pool |-> [jobs |-> 1, threaded |-> FALSE], reducer |-> "none",
     val |-> FALSE, rev |-> FALSE]

\* ------------------------------------------------------------- user code
\* Input items.  The mapper of the model is a generator: for an item of shape
\* "one" it yields one record (partition fields, sort fields, value), for
\* "none" nothing, for "short" a record lacking its value field and for
\* "long" a record with one field too many.  The first sort field is the
\* item's s, every further one its v.
SortVal == { <<1, 1>>, <<1, 2>>, <<2, 1>> }
Items ==
    { [shape |-> "one", k |-> k, s |-> sv[1], v |-> sv[2]] :
          k \in 1..NumKeys, sv \in SortVal }
    \cup { [shape |-> sh, k |-> 1, s |-> 2, v |-> 1] :
          sh \in {"none", "short", "long"} }

PtnFields(c, k) == [i \in 1..c.P |-> IF i = c.P THEN k ELSE 1]
SortFields(c, item) == [i \in 1..c.S |-> IF i = 1 THEN item.s ELSE item.v]

\* tuple(self.mapper(item)): the records one mapper call emits
Mapper(c, item) ==
    LET full == PtnFields(c, item.k) \o SortFields(c, item) \o <<item.v>>
    IN CASE item.shape = "none" -> <<>>
         [] item.shape = "one" -> << Rec(full) >>
         [] item.shape = "short" -> << Rec(SubSeq(full, 1, Len(full) - 1)) >>
         [] item.shape = "long" -> << Rec(full \o <<item.v>>) >>

KeyFields(key) == IF key.bare THEN <<key>> ELSE Rec(key.f)

\* self.reducer(key, values): the records one reducer call yields, or the one
\* record it returns.
\*   each: yield (key, v) for every value      none: yield nothing
\*   flat: yield (*key fields, sum(values))    ret : return (key, sum(values))
\*   srt : yield (key, 3 - v, v) per value     long: yield (key, v, v, v)
\*   pair: return (key, (len(values), sum(values)))
\*   mixed: yield (key, v) for the first value, (key, v, v) for the others
Reducer(kind, key, values) ==
    CASE kind = "each" ->
             [i \in 1..Len(values) |-> <<key, values[i]>>]
      [] kind = "none" -> <<>>
      [] kind = "flat" -> << KeyFields(key) \o <<B(SumVals(values))>> >>
      [] kind = "ret" -> << <<key, B(SumVals(values))>> >>
      [] kind = "srt" ->
             [i \in 1..Len(values) |->
                 <<key, B(3 - values[i].f[1]), values[i]>>]
      [] kind = "long" ->
             [i \in 1..Len(values) |->
                 <<key, values[i], values[i], values[i]>>]
      [] kind = "mixed" ->
             [i \in 1..Len(values) |->
                 IF i = 1 THEN <<key, values[i]>>
                 ELSE <<key, values[i], values[i]>>]
      [] kind = "pair" ->
             << <<key, T(<<Len(values), SumVals(values)>>)>> >>

\* inspect.isgeneratorfunction(self.reducer)
ReducerIsGenerator(kind) == kind \notin {"ret", "pair"}

\* ------------------------------------------- _MRInternal (tinymr/_base.py)
\* _map_job_pool / _reduce_job_pool: the pool a setting selects
JobPool(p) ==
    IF p.jobs = 1 THEN "serial"
    ELSE IF p.threaded THEN "thread"
    ELSE "process"

\* _ptn_key_idx and _sort_key_idx applied by operator.itemgetter
PtnKeyOf(c, rec) == IF c.P = 1 THEN rec[1] ELSE Slice(rec, 0, c.P)
SortKeyOf(c, rec) ==
    IF c.S = 1 THEN rec[c.P + 1] ELSE Slice(rec, c.P, c.P + c.S)

\* itemgetter raises IndexError on an index (not a slice) out of range
GrouperOK(c, rec) == Len(rec) >= 1 /\ (c.S = 1 => Len(rec) > c.P)

\* _map_key_grouper: (partition key, [sort key,] value)
MapKeyGrouper(c, rec) ==
    [ptn |-> PtnKeyOf(c, rec),
     srt |-> IF c.S > 0 THEN SortKeyOf(c, rec) ELSE T(<<>>),
     val |-> rec[Len(rec)]]

\* a count that leaves the sort keys out
ExpectedMapKeysNoSort(c) == c.P + 1

\* expected_key_count of the map phase
ExpectedMapKeys(c) == c.P + c.S + 1

\* the grouping loops of __call__: partitioned[ptn].append(val) or
\* partitioned[ptn].append((srt, val))
BaseGroupOK(c, results) ==
    \A n \in 1..Len(results) : GrouperOK(c, results[n])

BaseGroup(c, results) ==
    LET F[n \in 0..Len(results)] ==
            IF n = 0 THEN <<>>
            ELSE LET g == MapKeyGrouper(c, results[n])
                 IN DictAppend(F[n - 1], g.ptn,
                        IF c.S = 0 THEN g.val
                        ELSE [srt |-> g.srt, val |-> g.val])
    IN F[Len(results)]

\* partitioned_items: with sort keys and several partition keys the key handed
\* on is _ptn[0]
BaseItemKey(c, key) ==
    IF c.S # 0 /\ c.P > 1 THEN B(key.f[1]) ELSE key

\* _run_reduce: sort the partition by its sort key, strip the sort key.
\* srts is the sort key of each value handed to the reducer, in that order.
BaseSorted(c, vals) ==
    IF c.S = 0 THEN [values |-> vals, srts |-> <<>>]
    ELSE LET perm == SortPerm([i \in 1..Len(vals) |-> vals[i].srt.f], FALSE)
         IN [values |-> [i \in 1..Len(vals) |-> vals[perm[i]].val],
             srts |-> [i \in 1..Len(vals) |-> vals[perm[i]].srt.f]]

\* an unpacking that takes any record
BaseReduceGroupLax(results) == TRUE

\* the reduce phase's grouping loop: for k, v in results
BaseReduceGroupOK(results) == \A n \in 1..Len(results) : Len(results[n]) = 2

BaseReduceGroup(results) ==
    LET F[n \in 0..Len(results)] ==
            IF n = 0 THEN <<>>
            ELSE DictAppend(F[n - 1], results[n][1], results[n][2])
    IN F[Len(results)]

\* ---------------------------------------------- MapReduce (tinymr.py)
\* __partition_and_sort, the check of the first record
ElementCounts == {2, 3}

\* has_sort_element
HasSortElement(first) == Len(first) = 3

\* the partitioning loop: for ptn, vals in sequence, after
\* map(itemgetter(0, slice(1, 3)), sequence) when there is a sort element
SimpleUnpackOK(hs, sequence) ==
    hs \/ \A n \in 1..Len(sequence) : Len(sequence[n]) = 2

SimplePartition(hs, sequence) ==
    LET F[n \in 0..Len(sequence)] ==
            IF n = 0 THEN <<>>
            ELSE DictAppend(F[n - 1], sequence[n][1],
                     IF hs THEN Slice(sequence[n], 1, 3) ELSE sequence[n][2])
    IN F[Len(sequence)]

\* a sort key that never includes the value
SimpleSortKeyNoValue(hs, sort_with_value, x) ==
    IF hs THEN <<x.f[1]>> ELSE x.f

\* sortkey and getval of __partition_and_sort on the elements of a partition
SimpleSortKey(hs, sort_with_value, x) ==
    IF hs /\ ~sort_with_value THEN <<x.f[1]>> ELSE x.f

SimpleSortOK(hs, sort_with_value, parts) ==
    hs => \A i \in 1..Len(parts) : \A j \in 1..Len(parts[i].vals) :
              Len(parts[i].vals[j].f) >= 2

\* v.sort(key=sortkey, reverse=reverse); list(map(getval, v))
SimpleSortPartition(hs, sort_with_value, reverse, vals) ==
    LET perm == SortPerm([i \in 1..Len(vals) |->
                             SimpleSortKey(hs, sort_with_value, vals[i])],
                         reverse)
    IN [i \in 1..Len(vals) |->
           IF hs THEN B(vals[perm[i]].f[2]) ELSE vals[perm[i]]]

\* the sort element of every value of the sorted partition (not kept by the
\* code: the order the values were sorted into, for the properties)
SimpleSortedKeys(hs, sort_with_value, reverse, vals) ==
    LET perm == SortPerm([i \in 1..Len(vals) |->
                             SimpleSortKey(hs, sort_with_value, vals[i])],
                         reverse)
    IN IF hs THEN [i \in 1..Len(vals) |-> <<vals[perm[i]].f[1]>>] ELSE <<>>

NeedSort(hs, sort_with_value) == hs \/ sort_with_value

\* __partition_and_sort after the first record was accepted
PartitionAndSort(first, sequence, sort_with_value, reverse) ==
    LET hs == HasSortElement(first)
        parts == SimplePartition(hs, sequence)
    IN IF ~SimpleUnpackOK(hs, sequence) THEN [error |-> "ValueError", parts |-> <<>>]
       ELSE IF ~NeedSort(hs, sort_with_value)
            THEN [error |-> "",
                  parts |-> [i \in 1..Len(parts) |->
                      [key |-> parts[i].key, vals |-> parts[i].vals,
                       srts |-> <<>>]]]
       ELSE IF ~SimpleSortOK(hs, sort_with_value, parts)
            THEN [error |-> "IndexError", parts |-> <<>>]
       ELSE [error |-> "",
             parts |-> [i \in 1..Len(parts) |->
                 [key |-> parts[i].key,
                  vals |-> SimpleSortPartition(hs, sort_with_value, reverse,
                                               parts[i].vals),
                  srts |-> SimpleSortedKeys(hs, sort_with_value, reverse,
                                            parts[i].vals)]]]

\* ------------------------------------------------------------------ state
VARIABLES
    cfg,          \* the task's configuration, fixed at construction
    rcfg,         \* what the reduce phase of this run read of the task
    closed,       \* _MRInternal: self.closed
    closeCalled,  \* close() has been called on the task
    closeCalls,   \* how often close() has been called on the task
    scope,        \* the with-block of the task: "out", "in", left normally
                  \* ("left") or by an exception ("leftRaising")
    reached,      \* the error that left the with-block and reached its caller
    pc,           \* "idle" (no run in progress), "map", "reduce"
    afterClose,   \* the current / last invocation was made after close()
    prior,        \* how the invocation before the current one ended: "none"
                  \* on a task's first invocation (recorded by CallAgain)
    input,        \* the items read from the stream of the current / last run
    ended,        \* the stream has been read to its end
    mapTodo,      \* indices of the items read and not mapped yet
    mapArrived,   \* flattened map results, in the order the pool returned them
    mapChecked,   \* the first map record passed the arity check
    partitioned,  \* map phase: partition key -> values (insertion ordered)
    sortedParts,  \* indices of the partitions whose sort has run
    redTodo,      \* indices of the partitions not reduced yet
    redArrived,   \* flattened reduce results, in the order the pool returned
    redChecked,   \* the first reduce record passed the arity check
    calls,        \* the reducer calls made: key, values, sort keys of values
    hooks,        \* calls of init_map, init_reduce, mapper, output in this run
                  \* and the function that dispatched each phase
    final,        \* reduce phase: the partitioned dict of the orchestrator
    outArg,       \* the argument output() was called with
    yielded,      \* what has been read from a popitems() generator so far
    outcome       \* how the current / last invocation ended

vars == <<cfg, rcfg, closed, closeCalled, closeCalls, scope, reached, pc, afterClose, prior, input, ended, mapTodo, mapArrived,
          mapChecked, partitioned, sortedParts, redTodo, redArrived,
          redChecked, calls, hooks, final, outArg, yielded, outcome>>

taskVars == <<cfg, closed, closeCalled, closeCalls, scope, reached>>
mapVars == <<input, ended, mapTodo, mapArrived, mapChecked>>
redVars == <<rcfg, redTodo, redArrived, redChecked, calls>>
outVars == <<final, outArg, yielded>>

NoOutcome ==
    [status |-> "none", kind |-> "", phase |-> "", expected |-> {},
     actual |-> 0, keys |-> <<>>]
Ok == [NoOutcome EXCEPT !.status = "ok"]
Error(kind, phase, expected, actual, keys) ==
    [status |-> "error", kind |-> kind, phase |-> phase,
     expected |-> expected, actual |-> actual, keys |-> keys]

NoHooks ==
    [init_map |-> 0, init_reduce |-> 0, mapper |-> 0, output |-> 0,
     map_by |-> "", reduce_by |-> ""]

\* the function the map phase is dispatched through: the pool's
\* imap_unordered, or mapper_map or builtins.map
MapperMap(c) ==
    IF c.impl = "base" THEN JobPool(c.mapPool)
    ELSE IF c.mapPool.jobs > 1 THEN "mapper_map" ELSE "builtins.map"

\* the function the reduce phase is dispatched through: the pool's
\* imap_unordered, or reducer_map or it.starmap
ReducerMap(c, rc) ==
    IF c.impl = "base" THEN JobPool(rc.pool)
    ELSE IF rc.pool.jobs > 1 THEN "reducer_map" ELSE "it.starmap"
NoArg == [live |-> FALSE, mapping |-> <<>>]

IsBase == cfg.impl = "base"

InitOf(configs) ==
    /\ cfg \in configs
    /\ rcfg = NoReduceConfig
    /\ closed = FALSE
    /\ closeCalled = FALSE
    /\ closeCalls = 0
    /\ scope = "out"
    /\ reached = NoOutcome
    /\ pc = "idle"
    /\ afterClose = FALSE
    /\ prior = "none"
    /\ input = <<>>
    /\ ended = TRUE
    /\ mapTodo = {}
    /\ mapArrived = <<>>
    /\ mapChecked = FALSE
    /\ partitioned = <<>>
    /\ sortedParts = {}
    /\ redTodo = {}
    /\ redArrived = <<>>
    /\ redChecked = FALSE
    /\ calls = <<>>
    /\ hooks = NoHooks
    /\ final = <<>>
    /\ outArg = NoArg
    /\ yielded = <<>>
    /\ outcome = NoOutcome

Init == InitOf(Configs)

\* tasks that are also invoked with the map argument
InitMapArg == InitOf(Configs \cup MapArgConfigs)

\* an exception leaves __call__: the run is over
Raise(err) ==
    /\ pc' = "idle"
    /\ outcome' = err

\* close() of an _MRInternal task marks it closed
MRInternalClose(was) == TRUE

\* tinymr.MapReduce.close: an empty teardown hook
MapReduceClose(was) == was

\* self.close()
DoClose ==
    /\ closeCalled' = TRUE
    /\ closeCalls' = closeCalls + 1
    /\ closed' = IF IsBase THEN MRInternalClose(closed)
                 ELSE MapReduceClose(closed)

Close ==
    /\ pc = "idle"
    /\ closeCalls < MaxCloses
    /\ DoClose
    /\ UNCHANGED <<cfg, scope, reached, pc, afterClose, prior, mapVars, partitioned,
                   sortedParts, redVars, hooks, outVars, outcome>>

\* __enter__: return self
Enter ==
    /\ pc = "idle"
    /\ scope = "out"
    /\ scope' = "in"
    /\ UNCHANGED <<cfg, closed, closeCalled, closeCalls, reached, pc,
                   afterClose, prior, mapVars, partitioned, sortedParts, redVars,
                   hooks, outVars, outcome>>

\* a teardown that is skipped when the block is left by an exception
ExitClosesUnlessRaising(exc) == IF exc THEN 0 ELSE 1

\* how often __exit__(exc_type, exc_val, exc_tb) calls close()
ExitCloses(exc) == 1

\* the value __exit__ returns: None, so the exception is raised again
ExitSuppresses(exc) == FALSE

\* the with-block is left, by the exception of its last run (exc) or not
Exit ==
    /\ pc = "idle"
    /\ scope = "in"
    /\ \E exc \in (IF outcome.status = "error" THEN BOOLEAN ELSE {FALSE}) :
          /\ scope' = IF exc THEN "leftRaising" ELSE "left"
          /\ IF ExitCloses(exc) = 1 THEN DoClose
             ELSE UNCHANGED <<closed, closeCalled, closeCalls>>
          /\ reached' = IF exc /\ ~ExitSuppresses(exc) THEN outcome
                        ELSE NoOutcome
    /\ UNCHANGED <<cfg, pc, afterClose, prior, mapVars, partitioned, sortedParts,
                   redVars, hooks, outVars, outcome>>

\* the guard of _MRInternal.__call__; MapReduce.__call__ has none
RaisesClosed == IsBase /\ closed

\* a mapping or deque of an invocation is a local of __call__: a new invocation
\* starts without the earlier one's
KeptLocals(old) == old

FreshLocals(old) == <<>>

\* __call__(stream) up to the dispatch of the map phase; track says whether
\* the task remembers how its previous invocation ended
CallWith(track) ==
    /\ pc = "idle"
    /\ afterClose' = closeCalled
    /\ prior' = IF track THEN outcome.status ELSE prior
    /\ input' = <<>>
    /\ mapTodo' = {}
    /\ mapArrived' = FreshLocals(mapArrived)
    /\ mapChecked' = FALSE
    /\ partitioned' = FreshLocals(partitioned)
    /\ sortedParts' = {}
    /\ rcfg' = NoReduceConfig
    /\ redTodo' = {}
    /\ redArrived' = FreshLocals(redArrived)
    /\ redChecked' = FALSE
    /\ calls' = <<>>
    /\ final' = FreshLocals(final)
    /\ outArg' = NoArg
    /\ yielded' = <<>>
    /\ IF RaisesClosed
       THEN /\ Raise(Error("ClosedTaskError", "call", {}, 0, <<>>))
            /\ ended' = TRUE
            /\ hooks' = NoHooks
       ELSE /\ pc' = "map"
            /\ outcome' = NoOutcome
            /\ ended' = FALSE
            /\ hooks' = [NoHooks EXCEPT !.init_map = IF IsBase THEN 1 ELSE 0,
                                        !.map_by = MapperMap(cfg)]
    /\ UNCHANGED taskVars

Call == CallWith(FALSE)

\* an invocation of a task whose earlier invocations are remembered
CallAgain == CallWith(TRUE)

SetMin(S) == CHOOSE x \in S : \A y \in S : x <= y

\* a serial pool is a lazy map: it takes the next job when the consumer asks
\* for a result it does not have yet
Demands(arrived, checked) == arrived = <<>> \/ checked

\* which pending job a pool may complete next: a serial pool in order, pulled
\* by the consumer; a thread / process pool in any order
MayRun(pool, i, todo, arrived, checked) ==
    /\ i \in todo
    /\ JobPool(pool) = "serial" =>
          /\ i = SetMin(todo)
          /\ Demands(arrived, checked)

\* when the pool reads the stream: a serial pool one item per job, on demand;
\* a thread / process pool feeds its workers as fast as the stream yields
MayRead(pool, todo, arrived, checked) ==
    JobPool(pool) = "serial" => todo = {} /\ Demands(arrived, checked)

\* the pool takes the next item of the stream
Feed(item) ==
    /\ pc = "map"
    /\ ~ended
    /\ Len(input) < MaxItems
    /\ MayRead(cfg.mapPool, mapTodo, mapArrived, mapChecked)
    /\ input' = Append(input, item)
    /\ mapTodo' = mapTodo \cup {Len(input) + 1}
    /\ UNCHANGED <<taskVars, pc, afterClose, prior, ended, mapArrived, mapChecked,
                   partitioned, sortedParts, redVars, hooks, outVars, outcome>>

\* the stream is exhausted
EndStream ==
    /\ pc = "map"
    /\ ~ended
    /\ MayRead(cfg.mapPool, mapTodo, mapArrived, mapChecked)
    /\ ended' = TRUE
    /\ UNCHANGED <<taskVars, pc, afterClose, prior, input, mapTodo, mapArrived,
                   mapChecked, partitioned, sortedParts, redVars, hooks,
                   outVars, outcome>>

\* one mapper call completes: _run_map / _wrap_mapper, chained into results
MapStep(i) ==
    /\ pc = "map"
    /\ MayRun(cfg.mapPool, i, mapTodo, mapArrived, mapChecked)
    /\ mapTodo' = mapTodo \ {i}
    /\ mapArrived' = mapArrived \o Mapper(cfg, input[i])
    /\ hooks' = [hooks EXCEPT !.mapper = @ + 1]
    /\ UNCHANGED <<taskVars, pc, afterClose, prior, input, ended, mapChecked,
                   partitioned, sortedParts, redVars, outVars, outcome>>

\* the reduce-phase count taken as P + 1
ExpectedCountsPerPartitionKey(c, phase) ==
    IF c.impl = "simple" THEN ElementCounts
    ELSE IF phase = "map" THEN {ExpectedMapKeys(c)}
    ELSE {c.P + 1}

\* the arity the first record of a phase may have
ExpectedCounts(c, phase) ==
    IF c.impl = "simple" THEN ElementCounts
    ELSE IF phase = "map" THEN {ExpectedMapKeys(c)}
    ELSE {2}

ArityError(c) == IF c.impl = "base" THEN "KeyCountError" ELSE "ElementCountError"

\* a check that lets an empty phase through
FirstCheckAllowsEmpty(c, phase, arrived) ==
    IF arrived # <<>> /\ Len(arrived[1]) \notin ExpectedCounts(c, phase)
    THEN Error(ArityError(c), phase, ExpectedCounts(c, phase),
               Len(arrived[1]), arrived[1])
    ELSE Ok

\* first = next(results) and the check of len(first)
FirstCheck(c, phase, arrived) ==
    IF arrived = <<>>
    THEN Error("StopIteration", phase, {}, 0, <<>>)
    ELSE IF Len(arrived[1]) \notin ExpectedCounts(c, phase)
    THEN Error(ArityError(c), phase, ExpectedCounts(c, phase),
               Len(arrived[1]), arrived[1])
    ELSE Ok

\* a pool taken as drained at any time
DrainedAlways(end, todo) == TRUE

\* the pool has returned every result: the stream is read and no job is left
Drained(end, todo) == end /\ todo = {}

\* next(results) returns with the first record, or with StopIteration once
\* every job has returned without one
FirstReady(end, todo, arrived) == arrived # <<>> \/ Drained(end, todo)

CheckMap ==
    /\ pc = "map"
    /\ ~mapChecked
    /\ FirstReady(ended, mapTodo, mapArrived)
    /\ LET r == FirstCheck(cfg, "map", mapArrived)
       IN IF r.status = "ok"
          THEN /\ mapChecked' = TRUE
               /\ UNCHANGED <<pc, outcome>>
          ELSE /\ Raise(r)
               /\ UNCHANGED mapChecked
    /\ UNCHANGED <<taskVars, afterClose, prior, input, ended, mapTodo, mapArrived,
                   partitioned, sortedParts, redVars, hooks, outVars>>

\* the inspected record is not put back
ChainedDropsFirst(first, rest) == rest

\* results = it.chain([first], results): the stream the grouping loop reads,
\* the inspected first record put back in front of the rest
Chained(first, rest) == <<first>> \o rest

\* the map phase's grouping, up to the dispatch of the reduce phase
GroupMap ==
    /\ pc = "map"
    /\ mapChecked
    /\ Drained(ended, mapTodo)
    /\ rcfg' \in ReduceConfigs(cfg)
    /\ IF IsBase
       THEN IF BaseGroupOK(cfg, Chained(Head(mapArrived), Tail(mapArrived)))
            THEN /\ partitioned' =
                      BaseGroup(cfg, Chained(Head(mapArrived), Tail(mapArrived)))
                 /\ sortedParts' = {}
                 /\ hooks' = [hooks EXCEPT !.init_reduce = @ + 1,
                                           !.reduce_by = ReducerMap(cfg, rcfg')]
                 /\ pc' = "reduce"
                 /\ UNCHANGED outcome
            ELSE /\ Raise(Error("IndexError", "map", {}, 0, <<>>))
                 /\ UNCHANGED <<partitioned, sortedParts, hooks>>
       ELSE LET r == PartitionAndSort(Head(mapArrived),
                         Chained(Head(mapArrived), Tail(mapArrived)),
                         cfg.mapVal, cfg.mapRev)
            IN IF r.error = ""
               THEN /\ partitioned' = r.parts
                    /\ sortedParts' =
                          IF NeedSort(HasSortElement(Head(mapArrived)), cfg.mapVal)
                          THEN 1..Len(r.parts) ELSE {}
                    /\ pc' = "reduce"
                    /\ hooks' = [hooks EXCEPT !.reduce_by = ReducerMap(cfg, rcfg')]
                    /\ UNCHANGED outcome
               ELSE /\ Raise(Error(r.error, "map", {}, 0, <<>>))
                    /\ UNCHANGED <<partitioned, sortedParts, hooks>>
    /\ redTodo' = IF pc' = "reduce" THEN 1..Len(partitioned') ELSE {}
    /\ pc' = "idle" => rcfg' = rcfg
    /\ UNCHANGED <<taskVars, afterClose, prior, mapVars, redArrived, redChecked,
                   calls, outVars>>

\* what a reduce job contributes to the flattened results.  _run_reduce takes
\* tuple() of whatever the reducer gives and chain.from_iterable reads each
\* element as a record: of a returned (key, value) these are key and value.
\* _wrap_reducer / starmap are flattened only for a generator function.
Emitted(c, kind, key, values) ==
    IF c.impl = "base" /\ ~ReducerIsGenerator(kind)
    THEN LET r == Reducer(kind, key, values)[1]
         IN [i \in 1..Len(r) |-> KeyFields(r[i])]
    ELSE Reducer(kind, key, values)

\* the (key, values) a reduce job receives and the sort keys of the values
ReduceArgs(c, parts, i) ==
    IF c.impl = "base"
    THEN LET sv == BaseSorted(c, parts[i].vals)
         IN [key |-> BaseItemKey(c, parts[i].key), values |-> sv.values,
             srts |-> sv.srts, part |-> i]
    ELSE [key |-> parts[i].key, values |-> parts[i].vals,
          srts |-> parts[i].srts, part |-> i]

\* one reduce job completes: _run_reduce / _wrap_reducer / starmap(reducer)
RunReduce(i) ==
    /\ pc = "reduce"
    /\ MayRun(rcfg.pool, i, redTodo, redArrived, redChecked)
    /\ LET a == ReduceArgs(cfg, partitioned, i)
       IN /\ calls' = Append(calls, a)
          /\ redArrived' =
                redArrived \o Emitted(cfg, rcfg.reducer, a.key, a.values)
    /\ redTodo' = redTodo \ {i}
    /\ UNCHANGED rcfg
    /\ sortedParts' = IF IsBase /\ cfg.S # 0 THEN sortedParts \cup {i}
                      ELSE sortedParts
    /\ UNCHANGED <<taskVars, pc, afterClose, prior, mapVars, partitioned,
                   redChecked, hooks, outVars, outcome>>

CheckReduce ==
    /\ pc = "reduce"
    /\ ~redChecked
    /\ FirstReady(TRUE, redTodo, redArrived)
    /\ LET r == FirstCheck(cfg, "reduce", redArrived)
       IN IF r.status = "ok"
          THEN /\ redChecked' = TRUE
               /\ UNCHANGED <<pc, outcome>>
          ELSE /\ Raise(r)
               /\ UNCHANGED redChecked
    /\ UNCHANGED <<taskVars, afterClose, prior, mapVars, partitioned, sortedParts,
                   rcfg, redTodo, redArrived, calls, hooks, outVars>>

\* {k: next(iter(v)) for k, v in partitioned.items()}
Collapse(parts) ==
    [i \in 1..Len(parts) |-> [key |-> parts[i].key, value |-> parts[i].vals[1]]]

\* dict(partitioned)
DictCopy(parts) ==
    [i \in 1..Len(parts) |-> [key |-> parts[i].key, vals |-> parts[i].vals]]

\* a collapse applied whatever the reducer is
SimpleOutputCollapsed(kind, parts) == Collapse(parts)

\* what MapReduce.__call__ passes to output()
SimpleOutput(kind, parts) ==
    IF ~ReducerIsGenerator(kind) THEN Collapse(parts) ELSE DictCopy(parts)

\* a generator handed over by both engines
OutputArgLive(c, kind, parts) == [live |-> TRUE, mapping |-> <<>>]

\* the argument of output(): popitems(partitioned) is a generator over the
\* orchestrator's dict, dict(partitioned) a new dict
OutputArg(c, kind, parts) ==
    IF c.impl = "base" THEN [live |-> TRUE, mapping |-> <<>>]
    ELSE [live |-> FALSE, mapping |-> SimpleOutput(kind, parts)]

\* the reduce phase's grouping, the call of output() and the return
GroupReduce ==
    /\ pc = "reduce"
    /\ redChecked
    /\ Drained(TRUE, redTodo)
    /\ LET results == Chained(Head(redArrived), Tail(redArrived))
           r == IF IsBase
                THEN IF BaseReduceGroupOK(results)
                     THEN [error |-> "", parts |-> BaseReduceGroup(results)]
                     ELSE [error |-> "ValueError", parts |-> <<>>]
                ELSE PartitionAndSort(Head(redArrived), results,
                                      rcfg.val, rcfg.rev)
       IN IF r.error = ""
          THEN /\ final' = r.parts
               /\ outArg' = OutputArg(cfg, rcfg.reducer, r.parts)
               /\ hooks' = [hooks EXCEPT !.output = @ + 1]
               /\ pc' = "idle"
               /\ outcome' = Ok
          ELSE /\ Raise(Error(r.error, "reduce", {}, 0, <<>>))
               /\ UNCHANGED <<final, outArg, hooks>>
    /\ UNCHANGED <<taskVars, afterClose, prior, mapVars, partitioned, sortedParts,
                   redVars, yielded>>

\* tools.popitems: one dictionary.popitem() of the generator handed to output()
ReadOutput ==
    /\ pc = "idle"
    /\ outcome.status = "ok"
    /\ outArg.live
    /\ final # <<>>
    /\ yielded' = Append(yielded, final[Len(final)])
    /\ final' = SubSeq(final, 1, Len(final) - 1)
    /\ UNCHANGED <<taskVars, pc, afterClose, prior, mapVars, partitioned, sortedParts,
                   redVars, hooks, outArg, outcome>>

Next ==
    \/ Call
    \/ \E item \in Items : Feed(item)
    \/ EndStream
    \/ \E i \in mapTodo : MapStep(i)
    \/ CheckMap
    \/ GroupMap
    \/ \E i \in redTodo : RunReduce(i)
    \/ CheckReduce
    \/ GroupReduce
    \/ ReadOutput

Spec == Init /\ [][Next]_vars

\* a task invoked again and again, each invocation knowing how the one before
\* it ended
NextRuns ==
    \/ CallAgain
    \/ \E item \in Items : Feed(item)
    \/ EndStream
    \/ \E i \in mapTodo : MapStep(i)
    \/ CheckMap
    \/ GroupMap
    \/ \E i \in redTodo : RunReduce(i)
    \/ CheckReduce
    \/ GroupReduce
    \/ ReadOutput

SpecRuns == Init /\ [][NextRuns]_vars

\* the task's whole life: runs and close()
NextLife == Next \/ Close

SpecLife == Init /\ [][NextLife]_vars

\* the task used as a context manager: with Task() as mr: mr(...); mr(...)
NextScope ==
    \/ Enter
    \/ scope = "in" /\ Next
    \/ Exit

SpecScope == Init /\ [][NextScope]_vars

SpecMapArg == InitMapArg /\ [][Next]_vars

\* ------------------------------------------------------------ properties
\* the run has passed the map phase's grouping
MapGrouped ==
    \/ pc = "reduce"
    \/ pc = "idle" /\ (outcome.status = "ok" \/ outcome.phase = "reduce")

\* the first record of the flattened map output has a field count that is not
\* P + S + 1 (tinymr.MapReduce: P = 1 and S is 0 or 1, as the record has it)
C1_FirstBad ==
    /\ mapArrived # <<>>
    /\ IF IsBase THEN Len(mapArrived[1]) # cfg.P + cfg.S + 1
       ELSE \A S \in {0, 1} : Len(mapArrived[1]) # 1 + S + 1

\* C1: when the first record of the flattened map-phase output has a field
\* count different from P+S+1, the run fails with the arity error, carrying
\* the expected count, the actual count and the record, before the reduce
\* phase begins: init_reduce is not invoked and no reducer call is made,
\* whichever pool strategy the map phase uses.
C1_ArityAbortsBeforeReduce ==
    C1_FirstBad =>
        /\ ~mapChecked
        /\ pc # "reduce"
        /\ hooks.init_reduce = 0
        /\ hooks.output = 0
        /\ calls = <<>>
        /\ pc = "idle" =>
              /\ outcome.status = "error"
              /\ outcome.kind \in {"KeyCountError", "ElementCountError"}
              /\ outcome.phase = "map"
              /\ outcome.expected =
                    (IF IsBase THEN {cfg.P + cfg.S + 1} ELSE {2, 3})
              /\ outcome.actual = Len(mapArrived[1])
              /\ outcome.keys = mapArrived[1]

\* a process pool's map phase ended by a first record of P+S fields
C1_Witness ==
    /\ pc = "idle"
    /\ C1_FirstBad
    /\ outcome.kind = "KeyCountError"
    /\ outcome.actual = cfg.P + cfg.S
    /\ cfg.S >= 1
    /\ JobPool(cfg.mapPool) = "process"

\* the reduce phase has ended with the arity error
C2_Rejected ==
    /\ pc = "idle"
    /\ outcome.status = "error"
    /\ outcome.phase = "reduce"
    /\ outcome.kind \in {"KeyCountError", "ElementCountError"}

\* C2 as claimed: for every P >= 1 and every S the first record of the
\* flattened reduce output is accepted if and only if it has exactly P+1
\* fields; any other count fails the run with the arity error and output()
\* is not invoked.
C2_AcceptsExactlyPPlusOne ==
    redArrived # <<>> =>
        /\ redChecked => Len(redArrived[1]) = cfg.P + 1
        /\ C2_Rejected => Len(redArrived[1]) # cfg.P + 1

\* the field counts the reduce phase accepts
C2_Accepted(n) == IF IsBase THEN n = 2 ELSE n \in {2, 3}

\* C2 (amended): the first record of the flattened reduce output is accepted
\* if and only if it has exactly 2 fields (key, value) in _MRInternal, for
\* every P and S, and 2 or 3 fields in tinymr.MapReduce; any other count
\* fails the run with the arity error and output() is not invoked.
C2_AcceptsKeyValue ==
    redArrived # <<>> =>
        /\ redChecked => C2_Accepted(Len(redArrived[1]))
        /\ C2_Rejected => ~C2_Accepted(Len(redArrived[1]))
        /\ ~C2_Accepted(Len(redArrived[1])) =>
              /\ ~redChecked
              /\ hooks.output = 0
              /\ outArg = NoArg
              /\ pc = "idle" =>
                    /\ C2_Rejected
                    /\ outcome.actual = Len(redArrived[1])
                    /\ outcome.keys = redArrived[1]

\* two partition keys, and a reduce record of P+1 = 3 fields is rejected
C2_Witness ==
    /\ C2_Rejected
    /\ IsBase
    /\ cfg.P = 2
    /\ outcome.actual = cfg.P + 1

\* C3: once a task has been closed, every later invocation raises the
\* closed-task error: no hook, mapper, reducer or output call is made and no
\* result is returned.
C3_ClosedIsTerminal ==
    closeCalled =>
        /\ pc = "idle"
        /\ afterClose =>
              /\ outcome.status = "error"
              /\ outcome.kind = "ClosedTaskError"
              /\ hooks = NoHooks
              /\ calls = <<>>
              /\ outArg = NoArg

\* the reduce phase was dispatched
C4_Reduced == partitioned # <<>>

\* C4: a run in which a phase produces zero records (an empty input, every
\* mapper call emitting nothing, or every reducer call emitting nothing)
\* fails with an error instead of returning an empty result, and output() is
\* not invoked in that run.
C4_EmptyPhaseFails ==
    /\ mapArrived = <<>> => ~mapChecked /\ pc # "reduce"
    /\ redArrived = <<>> => ~redChecked /\ hooks.output = 0 /\ outArg = NoArg
    /\ (pc = "idle" /\ outcome.status # "none" /\ ~RaisesClosed
          /\ (mapArrived = <<>> \/ redArrived = <<>>)) =>
            /\ outcome.status = "error"
            /\ hooks.output = 0
            /\ final = <<>>
            /\ mapArrived = <<>> =>
                  outcome.kind = "StopIteration" /\ outcome.phase = "map"
            /\ (C4_Reduced /\ redArrived = <<>>) =>
                  outcome.kind = "StopIteration" /\ outcome.phase = "reduce"

\* a run whose reducer calls all emitted nothing has failed
C4_Witness ==
    /\ pc = "idle"
    /\ C4_Reduced
    /\ Len(calls) = 2
    /\ redArrived = <<>>
    /\ outcome.status = "error"

\* every item read was mapped to exactly one well-formed record
C5_OnePerItem == \A i \in 1..Len(input) : input[i].shape = "one"

\* the partition key of the record the mapper emits for an item
KeyOfItem(item) ==
    IF cfg.P = 1 THEN B(item.k) ELSE T(PtnFields(cfg, item.k))

\* the value of an element of a map-phase partition
C5_Value(e) == IF "val" \in DOMAIN e THEN e.val ELSE e

\* how often value v is stored under partition key
C5_Stored(key, v) ==
    Cardinality({ij \in {<<i, j>> : i \in 1..Len(partitioned), j \in 1..MaxItems} :
        /\ partitioned[ij[1]].key = key
        /\ ij[2] <= Len(partitioned[ij[1]].vals)
        /\ C5_Value(partitioned[ij[1]].vals[ij[2]]) = B(v)})

\* C5: with a mapper that emits exactly one well-formed record per item, the
\* map-phase grouping holds each item's value in exactly one partition, that
\* of its record's partition key, exactly once: the values across the
\* partitions are the mapped values as a multiset, the first (inspected and
\* re-attached) record included.
C5_EveryItemOnce ==
    (MapGrouped /\ C5_OnePerItem) =>
        /\ \A i, j \in 1..Len(partitioned) :
              partitioned[i].key = partitioned[j].key => i = j
        /\ DictKeys(partitioned) = {KeyOfItem(input[i]) : i \in 1..Len(input)}
        /\ \A key \in DictKeys(partitioned) : \A v \in {it.v : it \in Items} :
              C5_Stored(key, v) =
                  Cardinality({i \in 1..Len(input) :
                      KeyOfItem(input[i]) = key /\ input[i].v = v})

\* a thread pool's two records went to one partition, the inspected first
\* record with the second
C5_Witness ==
    /\ MapGrouped
    /\ C5_OnePerItem
    /\ Len(input) = 2
    /\ Len(partitioned) = 1
    /\ Len(partitioned[1].vals) = 2
    /\ JobPool(cfg.mapPool) = "thread"

\* the mapper emitted a well-formed record, or nothing, for every item
WellFormed == \A i \in 1..Len(input) : input[i].shape \in {"one", "none"}

\* a sort key is configured: n_sort_keys >= 1, or the records of a
\* tinymr.MapReduce run carry a sort element
C6_SortConfigured ==
    IF IsBase THEN cfg.S >= 1
    ELSE mapArrived # <<>> /\ Len(mapArrived[1]) = 3

\* sort keys of one length compared element-wise, left to right: a <= b
C6_Leq(a, b) ==
    \A i \in 1..Len(a) : (\A j \in 1..(i - 1) : a[j] = b[j]) => a[i] <= b[i]

\* the (sort key, value) pairs a reducer call received are those of the
\* records mapped to its partition, each as often as it was emitted
C6_PairsOfPartition(c) ==
    /\ Len(c.values) =
          Cardinality({m \in 1..Len(input) :
              /\ input[m].shape = "one"
              /\ KeyOfItem(input[m]) = partitioned[c.part].key})
    /\ \A i \in 1..Len(c.values) :
          Cardinality({j \in 1..Len(c.values) :
              c.srts[j] = c.srts[i] /\ c.values[j] = c.values[i]})
          = Cardinality({m \in 1..Len(input) :
              /\ input[m].shape = "one"
              /\ KeyOfItem(input[m]) = partitioned[c.part].key
              /\ SortFields(cfg, input[m]) = c.srts[i]
              /\ B(input[m].v) = c.values[i]})

\* C6: when a sort key is configured (S >= 1), the value sequence every
\* reducer call receives is ordered by the sort keys of the partition's
\* records: non-decreasing with the map-phase reverse flag off, non-increasing
\* with it on, multi-field sort keys compared element-wise left to right,
\* for every arrival order of the map results.
C6_SortedForReducer ==
    C6_SortConfigured =>
        \A n \in 1..Len(calls) :
            /\ Len(calls[n].srts) = Len(calls[n].values)
            /\ \A i \in 1..(Len(calls[n].srts) - 1) :
                  IF cfg.mapRev
                  THEN C6_Leq(calls[n].srts[i + 1], calls[n].srts[i])
                  ELSE C6_Leq(calls[n].srts[i], calls[n].srts[i + 1])
            /\ WellFormed => C6_PairsOfPartition(calls[n])

\* with the reverse flag on, a reducer received the value with the larger
\* sort key first although its record was read second
C6_Witness ==
    /\ cfg.mapRev
    /\ Len(input) = 2
    /\ input[1].s = 1
    /\ input[2].s = 2
    /\ \E n \in 1..Len(calls) :
          /\ calls[n].srts = << <<2>>, <<1>> >>
          /\ calls[n].values = << B(input[2].v), B(input[1].v) >>

\* the entries of the mapping output() was given: for a popitems() generator
\* those read from it and those still to be read
C7_Mapping ==
    IF outArg.live
    THEN {final[i] : i \in 1..Len(final)} \cup {yielded[i] : i \in 1..Len(yielded)}
    ELSE {outArg.mapping[i] : i \in 1..Len(outArg.mapping)}

\* the values of the reduce records with this key, in the order they came
C7_Emitted(key) ==
    LET sel == SelectSeq(redArrived, LAMBDA r : r[1] = key)
    IN [i \in 1..Len(sel) |-> sel[i][2]]

\* the reduce phase's grouping sorted its partitions
C7_ReduceSorted ==
    ~IsBase /\ (Len(redArrived[1]) = 3 \/ rcfg.val)

\* without a reduce-phase sort every key holds what was emitted for it, in
\* the order of emission
C7_KeepsEmissionOrder ==
    ~C7_ReduceSorted =>
        /\ {e.key : e \in C7_Mapping} =
              {redArrived[n][1] : n \in 1..Len(redArrived)}
        /\ \A e \in C7_Mapping :
              IF "value" \in DOMAIN e THEN e.value = C7_Emitted(e.key)[1]
              ELSE e.vals = C7_Emitted(e.key)

\* C7 as claimed: the mapping passed to output() has the shape key -> single
\* value if and only if the reducer has single-return semantics, key -> list
\* of values otherwise; without a reduce-phase sort each list keeps the order
\* of emission.
C7_ShapeBySemantics ==
    (pc = "idle" /\ outcome.status = "ok") =>
        /\ \A e \in C7_Mapping :
              ("value" \in DOMAIN e) <=> ~ReducerIsGenerator(rcfg.reducer)
        /\ C7_KeepsEmissionOrder

\* C7 (amended): tinymr.MapReduce passes key -> single value if and only if
\* the reducer is not a generator function, and key -> list of values when it
\* is (a list even for one record); _MRInternal never collapses and passes
\* key -> list of values whatever the reducer; without a reduce-phase sort
\* each key holds the values emitted for it in the order of emission.
C7_ShapeByEngine ==
    (pc = "idle" /\ outcome.status = "ok") =>
        /\ \A e \in C7_Mapping :
              /\ ("value" \in DOMAIN e) <=>
                    (~IsBase /\ ~ReducerIsGenerator(rcfg.reducer))
              /\ "value" \notin DOMAIN e => Len(e.vals) >= 1
        /\ C7_KeepsEmissionOrder

\* a generator reducer yielded one record for a key and output() got a list
C7_Witness ==
    /\ pc = "idle"
    /\ outcome.status = "ok"
    /\ ~IsBase
    /\ ReducerIsGenerator(rcfg.reducer)
    /\ ~C7_ReduceSorted
    /\ \E e \in C7_Mapping : Len(e.vals) = 1

\* The same run with every pool returning its results in input order: the
\* flattened map results, the partitions, the arguments of the reducer call
\* for a partition key, the flattened reduce results and the final partitions.
C8_MapResults == Flatten([i \in 1..Len(input) |-> Mapper(cfg, input[i])])

C8_Partitions ==
    LET results == C8_MapResults
    IN IF IsBase THEN BaseGroup(cfg, results)
       ELSE PartitionAndSort(results[1], results, cfg.mapVal, cfg.mapRev).parts

C8_ArgsFor(parts, key) ==
    ReduceArgs(cfg, parts, CHOOSE i \in 1..Len(parts) : parts[i].key = key)

C8_ReduceResults(parts) ==
    Flatten([i \in 1..Len(parts) |->
        LET a == ReduceArgs(cfg, parts, i)
        IN Emitted(cfg, rcfg.reducer, a.key, a.values)])

C8_Final(results) ==
    PartitionAndSort(results[1], results, rcfg.val, rcfg.rev).parts

\* how often x occurs in the sequence s
C8_Count(s, x) == Cardinality({i \in 1..Len(s) : s[i] = x})

\* the map phase sorted the partition of this reducer call
C8_Sorted(c) == c.part \in sortedParts

\* two different values of the partition compare equal in its sort: the
\* comparator sees the sort key only
C8_HasTies(c) ==
    /\ ~cfg.mapVal
    /\ \E i, j \in 1..Len(c.values) :
          c.srts[i] = c.srts[j] /\ c.values[i] # c.values[j]

\* the same for a sorted partition of the reduce phase
C8_FinalHasTies(p) ==
    /\ ~rcfg.val
    /\ \E i, j \in 1..Len(p.vals) :
          p.srts[i] = p.srts[j] /\ p.vals[i] # p.vals[j]

\* the partition keys, and for every reducer call the values as a multiset,
\* are those of the run in input order
C8_SameContents(parts) ==
    /\ DictKeys(partitioned) = DictKeys(parts)
    /\ \A n \in 1..Len(calls) :
          LET canon == C8_ArgsFor(parts, partitioned[calls[n].part].key)
          IN /\ calls[n].key = canon.key
             /\ Len(calls[n].values) = Len(canon.values)
             /\ \A i \in 1..Len(canon.values) :
                   C8_Count(calls[n].values, canon.values[i]) =
                       C8_Count(canon.values, canon.values[i])

\* the final mapping has the keys of the run in input order
C8_SameKeys(results) ==
    {e.key : e \in C7_Mapping} = {results[n][1] : n \in 1..Len(results)}

\* the run has ended with a result
Succeeded == pc = "idle" /\ outcome.status = "ok"

\* C8 as claimed: with a deterministic, pure mapper and reducer and a fixed
\* input, the final mapping's key set and the contents of every sorted
\* partition are the same for every pool strategy of either phase and every
\* completion order; only the order inside unsorted partitions may differ.
C8_SortedContentsFixed ==
    (WellFormed /\ MapGrouped) =>
        LET parts == C8_Partitions
            results == C8_ReduceResults(parts)
            last == C8_Final(results)
        IN /\ C8_SameContents(parts)
           /\ Succeeded => C8_SameKeys(results)
           /\ \A n \in 1..Len(calls) :
                 C8_Sorted(calls[n]) =>
                     calls[n].values =
                         C8_ArgsFor(parts, partitioned[calls[n].part].key).values
           /\ (Succeeded /\ C7_ReduceSorted) =>
                 {[key |-> final[i].key, vals |-> final[i].vals] :
                      i \in 1..Len(final)}
                 = {[key |-> last[i].key, vals |-> last[i].vals] :
                      i \in 1..Len(last)}

\* C8 (amended): for every pool strategy of either phase and every completion
\* order the partition keys, the multiset of values every reducer call
\* receives and the final mapping's key set are the same; the sort keys of a
\* sorted partition come in the same sequence, and its values do as well
\* unless two different values have equal sort keys: such records stay in
\* the order of their arrival.
C8_SortedContentsFixedUpToTies ==
    (WellFormed /\ MapGrouped) =>
        LET parts == C8_Partitions
            results == C8_ReduceResults(parts)
            last == C8_Final(results)
        IN /\ C8_SameContents(parts)
           /\ Succeeded => C8_SameKeys(results)
           /\ \A n \in 1..Len(calls) :
                 C8_Sorted(calls[n]) =>
                     LET canon == C8_ArgsFor(parts,
                                      partitioned[calls[n].part].key)
                     IN /\ calls[n].srts = canon.srts
                        /\ ~C8_HasTies(calls[n]) =>
                              calls[n].values = canon.values
           /\ (Succeeded /\ C7_ReduceSorted) =>
                 /\ {final[i].key : i \in 1..Len(final)} =
                       {last[i].key : i \in 1..Len(last)}
                 /\ \A i \in 1..Len(final) : \A j \in 1..Len(last) :
                       (final[i].key = last[j].key
                           /\ ~C8_FinalHasTies(final[i])) =>
                               final[i].vals = last[j].vals

\* a thread or process pool returned the second item's record first and the
\* reducer still received the two values in the order of their sort keys
C8_Witness ==
    /\ WellFormed
    /\ Len(input) = 2
    /\ input[1].s = 2
    /\ input[2].s = 1
    /\ mapArrived = Mapper(cfg, input[2]) \o Mapper(cfg, input[1])
    /\ JobPool(cfg.mapPool) # "serial"
    /\ Len(calls) = 1
    /\ C8_Sorted(calls[1])
    /\ calls[1].values = << B(input[2].v), B(input[1].v) >>
    /\ calls[1].values = C8_ArgsFor(C8_Partitions, partitioned[1].key).values

\* every mapper call of the run has completed
C9_MapDone == ended /\ mapTodo = {} /\ hooks.mapper = Len(input)

\* every reducer call of the run has completed
C9_ReduceDone == redTodo = {} /\ Len(calls) = Len(partitioned)

\* the map phase is to sort its partitions
C9_MapSorts ==
    IF IsBase THEN cfg.S # 0
    ELSE Len(mapArrived[1]) = 3 \/ cfg.mapVal

\* the order of the phases and hooks that holds in both engines
C9_PhaseOrder ==
    /\ (pc = "reduce" \/ calls # <<>>) =>
          /\ C9_MapDone
          /\ mapChecked
          /\ Len(mapArrived) =
                Len(Flatten([i \in 1..Len(partitioned) |-> partitioned[i].vals]))
    /\ \A n \in 1..Len(calls) : C9_MapSorts => calls[n].part \in sortedParts
    /\ hooks.output > 0 =>
          /\ C9_ReduceDone
          /\ redChecked
          /\ pc = "idle"
          /\ outcome.status = "ok"
    /\ hooks.mapper > 0 => hooks.init_map = (IF IsBase THEN 1 ELSE 0)
    /\ hooks.init_reduce > 0 => C9_MapDone /\ mapChecked
    /\ calls # <<>> => hooks.init_reduce = (IF IsBase THEN 1 ELSE 0)

\* C9 as claimed: no reducer call starts before every mapper call has
\* completed and the map-phase grouping and sorting of every partition is
\* finished; output() is not invoked before every reducer call has completed
\* and the reduce-phase grouping is finished; init_map runs before the first
\* mapper call, init_reduce after the last mapper call and before the first
\* reducer call.
C9_PhasesNeverOverlap ==
    /\ C9_PhaseOrder
    /\ (calls # <<>> /\ C9_MapSorts) => sortedParts = 1..Len(partitioned)

\* C9 (amended): no reducer call starts before every mapper call has
\* completed and the map-phase grouping is finished, and a partition is
\* sorted before the reducer call on it (_MRInternal sorts a partition inside
\* its reduce job, so other partitions may still be unsorted then); output()
\* is not invoked before every reducer call has completed and the
\* reduce-phase grouping is finished; init_map runs before the first mapper
\* call, init_reduce after the last mapper call and before the first reducer
\* call.
C9_PhasesInOrder == C9_PhaseOrder

\* a reducer call has been made on a sorted partition while another
\* partition waits for its reduce job, unsorted
C9_Witness ==
    /\ IsBase
    /\ cfg.S >= 1
    /\ Len(calls) = 1
    /\ calls[1].part \in sortedParts
    /\ redTodo # {}
    /\ redTodo \cap sortedParts = {}
    /\ hooks.init_reduce = 1
    /\ C9_MapDone

\* the complete mapping of the run: the reduce phase's grouping
C10_Grouped ==
    IF IsBase THEN BaseReduceGroup(redArrived)
    ELSE PartitionAndSort(redArrived[1], redArrived, rcfg.val, rcfg.rev).parts

\* output() is invoked once in a successful run, after the reduce phase's
\* grouping, and not at all in a run that fails
C10_OnceIfSuccessful ==
    /\ hooks.output <= 1
    /\ hooks.output = 1 <=> (pc = "idle" /\ outcome.status = "ok")
    /\ hooks.output = 1 => C9_ReduceDone /\ redChecked
    /\ hooks.output = 0 => outArg = NoArg /\ final = <<>> /\ yielded = <<>>

\* C10 as claimed: in every successful run output() is invoked exactly once,
\* after the reduce-phase grouping, with a complete mapping that does not
\* alias an orchestrator-internal structure, so that nothing the hook does
\* with it changes or depends on orchestrator state; in a run that fails it
\* is invoked zero times.
C10_OutputOnceNonLive ==
    /\ C10_OnceIfSuccessful
    /\ hooks.output = 1 =>
          /\ ~outArg.live
          /\ final = C10_Grouped
          /\ {e.key : e \in C7_Mapping} = DictKeys(C10_Grouped)

\* C10 (amended): in every successful run output() is invoked exactly once,
\* after the reduce-phase grouping, and in a run that fails zero times;
\* tinymr.MapReduce passes a new, complete dict; _MRInternal passes a
\* popitems() generator over its own dict, which every item read removes
\* from that dict: the items read and the items left are the complete
\* mapping.
C10_OutputOnce ==
    /\ C10_OnceIfSuccessful
    /\ hooks.output = 1 =>
          IF IsBase
          THEN /\ outArg.live
               /\ outArg.mapping = <<>>
               /\ final \o [i \in 1..Len(yielded) |->
                               yielded[Len(yielded) + 1 - i]] = C10_Grouped
          ELSE /\ ~outArg.live
               /\ final = C10_Grouped
               /\ outArg.mapping = SimpleOutput(rcfg.reducer, C10_Grouped)
               /\ yielded = <<>>

\* output() got the generator, one item was read and the orchestrator's dict
\* has lost it
C10_Witness ==
    /\ hooks.output = 1
    /\ outArg.live
    /\ Len(yielded) = 1
    /\ Len(final) = 1
    /\ Len(C10_Grouped) = 2

\* C11: when a task is used through scoped acquisition, leaving the scope
\* invokes the close hook exactly once on every exit path: after zero runs,
\* after successful runs and after a run that raised an error; the error of
\* the run is not suppressed by the scope exit and reaches the caller.
C11_ScopeExitClosesOnce ==
    /\ scope \in {"out", "in"} => closeCalls = 0 /\ reached = NoOutcome
    /\ scope \in {"left", "leftRaising"} => closeCalls = 1 /\ closeCalled
    /\ scope = "left" => reached = NoOutcome
    /\ scope = "leftRaising" =>
          /\ reached.status = "error"
          /\ reached = outcome

\* the block was left by the arity error of its run: close() was called and
\* the error reached the caller
C11_Witness ==
    /\ scope = "leftRaising"
    /\ closeCalls = 1
    /\ reached.kind \in {"KeyCountError", "ElementCountError"}

\* C12: in MapReduce.__call__, when the map argument is given and mapper_map
\* / reducer_map are not, both the map phase and the reduce phase are
\* dispatched through map; a mapper_map or reducer_map that is given as well
\* takes precedence for its phase.
C12_MapArgSetsBothPhases ==
    (~IsBase /\ cfg.map) =>
        /\ hooks.map_by # "" =>
              hooks.map_by =
                  (IF cfg.mapPool.jobs > 1 THEN "mapper_map" ELSE "map")
        /\ hooks.reduce_by # "" =>
              hooks.reduce_by =
                  (IF rcfg.pool.jobs > 1 THEN "reducer_map" ELSE "map")

\* C13: for every partition of the map-phase grouping the reducer is called
\* exactly once, with the partition's key as its key argument: the bare field
\* when P = 1, the tuple of the first P fields when P > 1, for every S >= 0;
\* two partitions with different partition keys are never presented to the
\* reducer under the same key.
C13_ReducerGetsPartitionKey ==
    /\ \A n, m \in 1..Len(calls) :
          /\ calls[n].part = calls[m].part => n = m
          /\ calls[n].key = calls[m].key => n = m
    /\ \A n \in 1..Len(calls) :
          /\ calls[n].part \in 1..Len(partitioned)
          /\ calls[n].key = partitioned[calls[n].part].key
          /\ calls[n].key.bare <=> cfg.P = 1
          /\ ~calls[n].key.bare => Len(calls[n].key.f) = cfg.P
    /\ (pc = "reduce" /\ redTodo = {}) => Len(calls) = Len(partitioned)

\* what the grouping of a phase compares for a record with sort key srt and
\* value val: the sort key, (sort key, value), the value, or nothing
C14_CompareKey(hs, flag, srt, val) ==
    (IF hs THEN srt ELSE <<>>) \o (IF flag THEN val.f ELSE <<>>)

\* The sort policy on one partition.  recs are the records of the phase in
\* their arrival order, KeyOf and SortOf give a record's partition key and
\* sort key, vals is the list
\* the grouping made for key.  A record's value stands in vals after the
\* values of the records that compare smaller (larger under reverse), and
\* of those that compare equal and arrived earlier.
C14_Policy(recs, KeyOf(_), SortOf(_), key, hs, flag, rev, vals) ==
    LET sel == SelectSeq(recs, LAMBDA r : KeyOf(r) = key)
        cmp(i) == C14_CompareKey(hs, flag, SortOf(sel[i]),
                                 sel[i][Len(sel[i])])
        precedes(b, a) ==
            IF cmp(b) = cmp(a) THEN b < a
            ELSE IF rev THEN C6_Leq(cmp(a), cmp(b))
            ELSE C6_Leq(cmp(b), cmp(a))
    IN /\ Len(vals) = Len(sel)
       /\ \A a \in 1..Len(sel) :
             vals[1 + Cardinality({b \in 1..Len(sel) : precedes(b, a)})]
                 = sel[a][Len(sel[a])]

\* the lists the reduce phase's grouping made, before any collapse
C14_FinalLists ==
    IF IsBase THEN C7_Mapping
    ELSE {[key |-> final[i].key, vals |-> final[i].vals] : i \in 1..Len(final)}

\* C14: the grouping of a phase sorts a partition if and only if the records
\* carry a sort key or the phase's sort-by-value flag is set: by the sort key
\* alone with the flag off, records with equal sort keys keeping their
\* arrival order; by (sort key, value) with a sort key and the flag on; by
\* the value with the flag and no sort key; in arrival order with neither.
\* The lists hold the values only, the sort key stripped.
C14_SortPolicy ==
    /\ WellFormed =>
          \A n \in 1..Len(calls) :
              C14_Policy(mapArrived, LAMBDA r : PtnKeyOf(cfg, r),
                         LAMBDA r : SortKeyOf(cfg, r).f,
                         partitioned[calls[n].part].key,
                         cfg.S >= 1, cfg.mapVal, cfg.mapRev,
                         calls[n].values)
    /\ Succeeded =>
          \A e \in C14_FinalLists :
              C14_Policy(redArrived, LAMBDA r : r[1], LAMBDA r : r[2].f, e.key,
                         Len(redArrived[1]) = 3, rcfg.val, rcfg.rev, e.vals)

\* two records with one sort key arrived with the larger value first and the
\* sort-by-value flag put the smaller value first
C14_Witness ==
    /\ ~IsBase
    /\ cfg.mapVal
    /\ ~cfg.mapRev
    /\ mapArrived = << <<B(1), B(1), B(2)>>, <<B(1), B(1), B(1)>> >>
    /\ Len(calls) = 1
    /\ calls[1].values = << B(1), B(2) >>

\* a record after the first has another field count than the first
C15_Odd(arrived) ==
    \E n \in 2..Len(arrived) : Len(arrived[n]) # Len(arrived[1])

\* the run failed in this phase after the phase's first record was accepted
C15_FailedLater(phase) ==
    /\ pc = "idle"
    /\ outcome.status = "error"
    /\ outcome.phase = phase
    /\ IF phase = "map" THEN mapChecked ELSE redChecked

\* every value of the map records is stored under the record's first P
\* field(s), the value being the record's last field
C15_GroupedByFirstAndLast ==
    \A key \in DictKeys(partitioned) : \A v \in {it.v : it \in Items} :
        C5_Stored(key, v) =
            Cardinality({n \in 1..Len(mapArrived) :
                /\ PtnKeyOf(cfg, mapArrived[n]) = key
                /\ mapArrived[n][Len(mapArrived[n])] = B(v)})

\* C15 as claimed: only the first record of each phase is validated; once it
\* has the expected arity, a later record of the phase with another field
\* count raises no error of any kind, the run completes, and the record is
\* grouped under its first field(s) with its last field as the value.
C15_LaterRecordsPassSilently ==
    /\ ~C15_FailedLater("map")
    /\ ~C15_FailedLater("reduce")
    /\ MapGrouped => C15_GroupedByFirstAndLast

\* the field counts the unpacking of a grouping loop takes, given the first
\* record: tinymr.MapReduce with a sort element takes fields 2 and 3
C15_Unpacks(first, rec) ==
    IF ~IsBase /\ Len(first) = 3 THEN Len(rec) >= 3 ELSE Len(rec) = 2

\* C15 (amended): only the first record of each phase is checked for its
\* field count: a later record never raises the arity error.  The map phase
\* of _MRInternal groups a later record of another field count under its
\* first P field(s) with its last field as the value (the record having the
\* fields the grouper indexes).  The reduce phase of
\* _MRInternal and both phases of tinymr.MapReduce unpack every record: a
\* later record that cannot be unpacked fails the run with a ValueError or
\* an IndexError, and only a record of more than 3 fields after a first
\* record with a sort element passes.
C15_OnlyFirstRecordChecked ==
    /\ \A phase \in {"map", "reduce"} :
          C15_FailedLater(phase) =>
              /\ outcome.kind \in {"ValueError", "IndexError"}
              /\ ~(IsBase /\ phase = "map")
              /\ C15_Odd(IF phase = "map" THEN mapArrived ELSE redArrived)
    /\ (IsBase /\ MapGrouped) => C15_GroupedByFirstAndLast
    /\ (~IsBase /\ MapGrouped) =>
          \A n \in 1..Len(mapArrived) :
              C15_Unpacks(mapArrived[1], mapArrived[n])
    /\ Succeeded =>
          \A n \in 1..Len(redArrived) :
              C15_Unpacks(redArrived[1], redArrived[n])

\* the first reduce record had 2 fields and was accepted, a later one had 3
\* and the run failed unpacking it
C15_Witness ==
    /\ IsBase
    /\ C15_FailedLater("reduce")
    /\ outcome.kind = "ValueError"
    /\ Len(redArrived[1]) = 2
    /\ Len(redArrived[2]) = 3

\* the invocation in progress or just ended follows an earlier one on the task
C16_LaterRun == prior # "none"

\* how often record r occurs in a sequence of records
C16_Count(recs, r) == Cardinality({n \in 1..Len(recs) : recs[n] = r})

\* the map records are records the mapper emits for items of this run's input
C16_MapRecordsOfThisRun ==
    LET own == C8_MapResults
    IN \A n \in 1..Len(mapArrived) :
           C16_Count(mapArrived, mapArrived[n]) <= C16_Count(own, mapArrived[n])

\* the reduce records are records the reducer emits for this run's calls
C16_ReduceRecordsOfThisRun ==
    LET own == Flatten([n \in 1..Len(calls) |->
                   Emitted(cfg, rcfg.reducer, calls[n].key, calls[n].values)])
    IN \A n \in 1..Len(redArrived) :
           C16_Count(redArrived, redArrived[n]) <= C16_Count(own, redArrived[n])

\* C16: an open task can be run any number of times and each run is
\* independent: after any sequence of earlier runs on the task, successful or
\* failed, the task is still open, and a run on an input has the partitions
\* and the result of the first run of a fresh task on that input; no
\* partition data of an earlier run appears in a later run's partitions or
\* result.
C16_RunsAreIndependent ==
    C16_LaterRun =>
        /\ ~closed
        /\ pc = "map" =>
              /\ partitioned = <<>> /\ sortedParts = {}
              /\ calls = <<>> /\ redArrived = <<>>
              /\ final = <<>> /\ yielded = <<>> /\ outArg = NoArg
        /\ C16_MapRecordsOfThisRun
        /\ C16_ReduceRecordsOfThisRun
        /\ MapGrouped =>
              /\ DictKeys(partitioned) \subseteq
                    {PtnKeyOf(cfg, mapArrived[n]) : n \in 1..Len(mapArrived)}
              /\ \A n \in 1..Len(calls) :
                    calls[n].key = ReduceArgs(cfg, partitioned, calls[n].part).key
        /\ Succeeded =>
              {e.key : e \in C7_Mapping} =
                  {redArrived[n][1] : n \in 1..Len(redArrived)}
        /\ (WellFormed /\ MapGrouped) =>
              LET parts == C8_Partitions
              IN /\ C8_SameContents(parts)
                 /\ Succeeded => C8_SameKeys(C8_ReduceResults(parts))

\* a run on two items succeeded with a result on a task whose previous run
\* had failed
C16_Witness ==
    /\ prior = "error"
    /\ Succeeded
    /\ Len(input) = 2
    /\ C7_Mapping # {}

====
